---- MODULE Spec2Model ----
(***************************************************************************)
(* A model of the DRS client of drs_cli/client.py (class DRSClient): the   *)
(* constructor, the identifier resolver, and the four request operations   *)
(* get_object, get_access_url, post_object and delete_object.              *)
(*                                                                         *)
(* Text on which the code works character by character (URIs, identifiers, *)
(* URLs) is a sequence of one-character strings; text the code only passes *)
(* on (tokens, header values, JSON field values) is a TLA+ string.         *)
(***************************************************************************)
EXTENDS Integers, Sequences, FiniteSets, TLC

VARIABLES
    ctor,       \* outcome of DRSClient(...): "none" (not called yet), "ok", or the exception raised
    ctorArgs,   \* the arguments DRSClient(...) was called with
    uri,        \* self.uri
    token,      \* self.token
    headers,    \* self.headers
    call,       \* the last operation call on the client: arguments, request sent, outcome
    arg,        \* the argument of the last direct call of _get_object_id
    ret,        \* the outcome of that call
    check       \* the last call of a check of drs_cli/utils.py: function, argument, result

vars == <<ctor, ctorArgs, uri, token, headers, call, arg, ret, check>>

---------------------------------------------------------------------------
(* Characters *)

LowerLetters == <<"a","b","c","d","e","f","g","h","i","j","k","l","m",
                  "n","o","p","q","r","s","t","u","v","w","x","y","z">>
UpperLetters == <<"A","B","C","D","E","F","G","H","I","J","K","L","M",
                  "N","O","P","Q","R","S","T","U","V","W","X","Y","Z">>
DigitChars   == <<"0","1","2","3","4","5","6","7","8","9">>
HexChars     == <<"0","1","2","3","4","5","6","7","8","9","A","B","C","D","E","F">>

Range(f) == {f[i] : i \in DOMAIN f}

LowerSet == Range(LowerLetters)
UpperSet == Range(UpperLetters)
DigitSet == Range(DigitChars)

\* str.lower() of one character; also how re.I compares a pattern letter.
LowerOf == [c \in UpperSet |->
               LowerLetters[CHOOSE i \in DOMAIN UpperLetters : UpperLetters[i] = c]]
Lower(c) == IF c \in UpperSet THEN LowerOf[c] ELSE c

\* ord(c) for the ASCII characters that are neither letters nor digits.
Ord(c) ==
    CASE c = "\n" -> 10 [] c = "\r" -> 13 [] c = " " -> 32 [] c = "!" -> 33
      [] c = "#" -> 35 [] c = "$" -> 36 [] c = "%" -> 37 [] c = "&" -> 38
      [] c = "'" -> 39 [] c = "+" -> 43 [] c = "," -> 44 [] c = "-" -> 45
      [] c = "." -> 46 [] c = "/" -> 47 [] c = ":" -> 58 [] c = ";" -> 59
      [] c = "=" -> 61 [] c = "?" -> 63 [] c = "@" -> 64 [] c = "\\" -> 92
      [] c = "_" -> 95 [] c = "~" -> 126

\* str(n) for an integer n >= 0, as a sequence of characters.
RECURSIVE IntToStr(_)
IntToStr(n) ==
    IF n < 10 THEN <<DigitChars[n + 1]>>
    ELSE IntToStr(n \div 10) \o <<DigitChars[(n % 10) + 1]>>

\* How many times character c occurs in s.
RECURSIVE Count(_, _)
Count(s, c) ==
    IF s = <<>> THEN 0
    ELSE (IF Head(s) = c THEN 1 ELSE 0) + Count(Tail(s), c)

\* s[from..], the rest of s from position from on.
Rest(s, from) == SubSeq(s, from, Len(s))

---------------------------------------------------------------------------
(* urllib.parse.quote(string, safe='') *)

\* The characters quote() never encodes: letters, digits and "_.-~".
Unreserved(c) ==
    c \in LowerSet \cup UpperSet \cup DigitSet \cup {"_", ".", "-", "~"}

\* One character as quote() writes it when it is not in the safe set.
PercentEncode(c) ==
    <<"%", HexChars[(Ord(c) \div 16) + 1], HexChars[(Ord(c) % 16) + 1]>>

\* quote(string=s, safe=''): every character outside the unreserved set becomes %XX.
RECURSIVE Quote(_)
Quote(s) ==
    IF s = <<>> THEN <<>>
    ELSE (IF Unreserved(Head(s)) THEN <<Head(s)>> ELSE PercentEncode(Head(s)))
         \o Quote(Tail(s))

---------------------------------------------------------------------------
(* The regular expressions of DRSClient, matched with re.I *)

\* The repetition bound of [a-z0-9-]{1,61} in _RE_DOMAIN_PART.
MaxLabelMiddle == 61
\* The longest host _get_host accepts.
MaxHostLength == 253

IsAlnum(c) ==       \* [a-z0-9] under re.I
    c \in LowerSet \cup UpperSet \cup DigitSet
IsLabelChar(c) ==   \* [a-z0-9-] under re.I
    IsAlnum(c) \/ c = "-"

Min(a, b) == IF a < b THEN a ELSE b

\* How many characters of [a-z0-9-] follow one another from position p on,
\* counted as far as {1,61}[a-z0-9]? can read: MaxLabelMiddle + 1 at most.
RunLen(s, p) ==
    LET last  == Min(Len(s), p + MaxLabelMiddle)
        stops == {i \in p..last : ~IsLabelChar(s[i])}
    IN  IF stops = {} THEN last + 1 - p
        ELSE (CHOOSE i \in stops : \A j \in stops : i <= j) - p

\* _RE_DOMAIN_PART = [a-z0-9]([a-z0-9-]{1,61}[a-z0-9]?)? : the lengths of its
\* matches that start at position p of s. After the first character come k
\* characters of [a-z0-9-], 1 <= k <= 61, and then one more of [a-z0-9] or none.
PartLens(s, p) ==
    IF p > Len(s) \/ ~IsAlnum(s[p]) THEN {}
    ELSE LET run == RunLen(s, p + 1)
         IN  {1}
             \cup {1 + k : k \in 1..Min(MaxLabelMiddle, run)}
             \cup {2 + k : k \in {k \in 1..Min(MaxLabelMiddle, run - 1) : IsAlnum(s[p + k + 1])}}

Max(S) == CHOOSE m \in S : \A n \in S : n <= m

IsAt(s, p, c) == p <= Len(s) /\ s[p] = c

\* _RE_DOMAIN = (PART\.)+PART\.? as the backtracking matcher finds it at
\* position p when whatever follows the domain is optional (as in _RE_HOST):
\* the position after the match, 0 for no match. n counts the (PART\.)
\* iterations done: the greedy loop first tries one more iteration, and only
\* when that fails the final PART (longest first) and the optional dot.
RECURSIVE DomainEnd(_, _, _)
DomainEnd(s, p, n) ==
    LET lens  == PartLens(s, p)
        dot   == {l \in lens : IsAt(s, p + l, ".")}
        more  == IF dot = {} THEN 0 ELSE DomainEnd(s, p + Max(dot) + 1, n + 1)
        last  == IF lens = {} \/ n = 0 THEN 0
                 ELSE LET e == p + Max(lens)
                      IN  IF IsAt(s, e, ".") THEN e + 1 ELSE e
    IN  IF more # 0 THEN more ELSE last

\* Every position at which a match of _RE_DOMAIN that starts at p can end.
RECURSIVE DomainEnds(_, _, _)
DomainEnds(s, p, n) ==
    LET lens == PartLens(s, p)
    IN  (IF n = 0 THEN {}
         ELSE {p + l : l \in lens} \cup {p + l + 1 : l \in {l \in lens : IsAt(s, p + l, ".")}})
        \cup UNION {DomainEnds(s, p + l + 1, n + 1) : l \in {l \in lens : IsAt(s, p + l, ".")}}

\* s starts with the letters of prefix, compared as re.I compares them.
StartsWithCI(s, prefix) ==
    /\ Len(s) >= Len(prefix)
    /\ \A i \in 1..Len(prefix) : Lower(s[i]) = prefix[i]

\* (?P<obj_id>.+)$ from position p: "." is any character but a line feed, and
\* "$" is the end of the string or the place before a line feed that ends the
\* string. The position after the identifier, 0 for no match.
DotPlusEnd(s, p) ==
    LET stops == {i \in p..Len(s) : s[i] = "\n"}
        e     == IF stops = {} THEN Len(s) + 1
                 ELSE CHOOSE i \in stops : \A j \in stops : i <= j
    IN  IF e > p /\ (e = Len(s) + 1 \/ e = Len(s)) THEN e ELSE 0

DrsPrefix == <<"d", "r", "s", ":", "/", "/">>

\* re.search(_RE_OBJECT_ID, object_id, re.I): the group obj_id as <<id>>, or
\* <<>> when the search returns None. The optional group drs://DOMAIN/ is
\* tried first; the identifier is then what follows it.
MatchObjectId(object_id) ==
    LET start   == Len(DrsPrefix) + 1
        slashes == IF StartsWithCI(object_id, DrsPrefix)
                   THEN {e \in DomainEnds(object_id, start, 0) :
                            IsAt(object_id, e, "/") /\ DotPlusEnd(object_id, e + 1) # 0}
                   ELSE {}
        from    == IF slashes = {} THEN 1 ELSE Max(slashes) + 1
        end     == DotPlusEnd(object_id, from)
    IN  IF end = 0 THEN <<>> ELSE <<SubSeq(object_id, from, end - 1)>>

---------------------------------------------------------------------------
(* Optional values, headers *)

\* Python's None and a value that is present, for Optional[...] arguments.
None == <<>>
Some(v) == <<v>>

\* `if token:` is false for None and for the empty string.
Truthy(tok) == tok # None /\ tok[1] # ""

\* DRSClient._get_headers, reading self.token = tok.
_get_headers(tok) ==
    IF Truthy(tok)
    THEN ("Content-type" :> "application/json") @@ ("Authorization" :> ("Bearer " \o tok[1]))
    ELSE ("Content-type" :> "application/json")

---------------------------------------------------------------------------
(* DRSClient._get_host and DRSClient.__init__ *)

Drs   == <<"d", "r", "s">>
Http  == <<"h", "t", "t", "p">>
Https == <<"h", "t", "t", "p", "s">>
SchemeSep == <<":", "/", "/">>
\* The default of the constructor's base_path argument: 'ga4gh/drs/v1'.
DefaultBasePath == <<"g", "a", "4", "g", "h", "/", "d", "r", "s", "/", "v", "1">>

\* str.rstrip(c): s without the run of c at its end.
RECURSIVE RStrip(_, _)
RStrip(s, c) ==
    IF s # <<>> /\ s[Len(s)] = c THEN RStrip(SubSeq(s, 1, Len(s) - 1), c) ELSE s

\* DRSClient._get_host: re.search(_RE_HOST, uri, re.I), then the length check.
\* The schema group keeps the letters of the input as they were written.
_get_hostUnmatched(uri_in) ==
    LET named  == {w \in {Drs, Http, Https} : StartsWithCI(uri_in, w \o SchemeSep)}
        word   == CHOOSE w \in named : TRUE
        start  == Len(word) + Len(SchemeSep) + 1
        end    == DomainEnd(uri_in, start, 0)
        schema == SubSeq(uri_in, 1, Len(word))
        host   == RStrip(SubSeq(uri_in, start, end - 1), "\\")
    IN  IF named = {} THEN [raised |-> "InvalidURI", schema |-> <<>>, host |-> <<>>]
        ELSE IF end = 0 THEN [raised |-> "", schema |-> schema, host |-> <<>>]
        ELSE IF Len(host) > MaxHostLength
             THEN [raised |-> "InvalidURI", schema |-> <<>>, host |-> <<>>]
             ELSE [raised |-> "", schema |-> schema, host |-> host]
_get_host(uri_in) ==
    LET named  == {w \in {Drs, Http, Https} : StartsWithCI(uri_in, w \o SchemeSep)}
        word   == CHOOSE w \in named : TRUE
        start  == Len(word) + Len(SchemeSep) + 1
        end    == DomainEnd(uri_in, start, 0)
        schema == SubSeq(uri_in, 1, Len(word))
        host   == RStrip(SubSeq(uri_in, start, end - 1), "\\")
    IN  IF named = {} \/ end = 0 THEN [raised |-> "InvalidURI", schema |-> <<>>, host |-> <<>>]
        ELSE IF Len(host) > MaxHostLength
             THEN [raised |-> "InvalidURI", schema |-> <<>>, host |-> <<>>]
             ELSE [raised |-> "", schema |-> schema, host |-> host]

\* __init__, lines 75-76: a 'drs' schema becomes the transport schema.
EffectiveSchemaNoHttp(schema, use_http) ==
    IF schema = Drs THEN Https ELSE schema
EffectiveSchema(schema, use_http) ==
    IF schema = Drs THEN (IF use_http THEN Http ELSE Https) ELSE schema

\* __init__, lines 77-78: the port when none is given.
EffectivePortAlways443(schema, port) ==
    IF port = None THEN 443 ELSE port[1]
EffectivePort(schema, port) ==
    IF port = None THEN (IF schema = Http THEN 80 ELSE 443) ELSE port[1]

\* __init__, line 79: f"{schema}://{host}:{port}/{base_path}".
ComposeUri(schema, host, port, base_path) ==
    schema \o SchemeSep \o host \o <<":">> \o IntToStr(port) \o <<"/">> \o base_path

NoCall == [op |-> "none", phase |-> "done"]
NoArgs == [uri |-> <<>>]

\* DRSClient(uri, port, base_path, use_http, token): the constructor. When
\* _get_host raises InvalidURI no attribute is set and no object results.
DRSClient(uri_in, port, base_path, use_http, tok) ==
    /\ ctor = "none"
    /\ ctorArgs' = [uri |-> uri_in, port |-> port, base_path |-> base_path,
                    use_http |-> use_http, token |-> tok]
    /\ LET h      == _get_host(uri_in)
           schema == EffectiveSchema(h.schema, use_http)
       IN  IF h.raised # ""
           THEN /\ ctor' = h.raised
                /\ UNCHANGED <<uri, token, headers>>
           ELSE /\ ctor' = "ok"
                /\ uri' = ComposeUri(schema, h.host, EffectivePort(schema, port), base_path)
                /\ token' = tok
                /\ headers' = _get_headers(tok)
    /\ UNCHANGED <<call, arg, ret, check>>

---------------------------------------------------------------------------
(* DRSClient._get_object_id *)

\* DRSClient._get_object_id: match.group('obj_id') percent-encoded. When the
\* search returned None, match.group raises AttributeError.
_get_object_id(object_id) ==
    LET match == MatchObjectId(object_id)
    IN  IF match = <<>> THEN [raised |-> "AttributeError", value |-> <<>>]
        ELSE [raised |-> "", value |-> Quote(match[1])]

\* A direct call of _get_object_id on a client.
GetObjectId(object_id) ==
    /\ arg = None
    /\ arg' = Some(object_id)
    /\ ret' = _get_object_id(object_id)
    /\ UNCHANGED <<ctor, ctorArgs, uri, token, headers, call, check>>

---------------------------------------------------------------------------
(* JSON bodies and the pydantic models of drs_cli.models *)

NoFields == [k \in {} |-> ""]

\* A JSON value: a string, a number, a list or an object. s is the text of a
\* string or number, f the fields of an object.
JStr(text)  == [t |-> "str",  s |-> text, f |-> NoFields]
JNum(text)  == [t |-> "num",  s |-> text, f |-> NoFields]
JList       == [t |-> "list", s |-> "",   f |-> NoFields]
JObj(fields) == [t |-> "obj", s |-> "",   f |-> fields]

\* A response body: text that response.json() cannot parse, or a JSON value.
Unparsable == [json |-> None]
Json(v)    == [json |-> Some(v)]

\* The fields of the wire shapes.
ErrorFields         == {"msg", "status_code"}
AccessURLFields     == {"url", "headers"}
PostDrsObjectFields == {"created_time", "updated_time", "version", "size",
                        "mime_type", "checksums", "access_methods"}
DrsObjectFields     == {"id", "self_uri"} \cup PostDrsObjectFields

ModelFields(model) ==
    CASE model = "Error" -> ErrorFields
      [] model = "AccessURL" -> AccessURLFields
      [] model = "DrsObject" -> DrsObjectFields
      [] model = "PostDrsObject" -> PostDrsObjectFields

\* Model(**fields) passes validation: every field of the shape is given.
Validates(model, fields) == ModelFields(model) \subseteq DOMAIN fields

\* The record Model(**fields) builds.
Parsed(model, fields) == [k \in ModelFields(model) |-> fields[k]]

\* str(response.json()): a JSON string is its own text; any other value is
\* written as Python prints it.
FieldOrder == <<"id", "self_uri", "msg", "status_code", "url", "headers", "created_time",
                "updated_time", "version", "size", "mime_type", "checksums", "access_methods">>

RECURSIVE PyDictItems(_, _, _)
PyDictItems(fields, i, first) ==
    IF i > Len(FieldOrder) THEN ""
    ELSE IF FieldOrder[i] \in DOMAIN fields
         THEN (IF first THEN "" ELSE ", ")
              \o "'" \o FieldOrder[i] \o "': '" \o fields[FieldOrder[i]] \o "'"
              \o PyDictItems(fields, i + 1, FALSE)
         ELSE PyDictItems(fields, i + 1, first)

PyStr(v) ==
    CASE v.t \in {"str", "num"} -> v.s
      [] v.t = "list" -> "[]"
      [] v.t = "obj" -> "{" \o PyDictItems(v.f, 1, TRUE) \o "}"

---------------------------------------------------------------------------
(* The outcome of a call *)

Raise(type)     == [outcome |-> "raise",  type |-> type, value |-> None]
Return(type, v) == [outcome |-> "return", type |-> type, value |-> Some(v)]

\* What the transport does with a request: it raises exc, or (exc = "") it
\* answers with a status code and a body.
NetRaises(exc)         == [exc |-> exc, status |-> 0, body |-> Unparsable]
NetAnswers(status, body) == [exc |-> "", status |-> status, body |-> body]

\* The exceptions of the transport that each operation catches (lines 121-125).
CaughtTransportErrors == {"ConnectionError", "gaierror", "NewConnectionError"}

\* The try block around requests.get/post/delete (lines 116-128): a caught
\* failure is raised again as requests.exceptions.ConnectionError.
TransportFailureUnwrapped(net) ==
    IF net.exc = "ConnectionError" THEN Raise("ConnectionError") ELSE Raise(net.exc)
TransportFailure(net) ==
    IF net.exc \in CaughtTransportErrors THEN Raise("ConnectionError") ELSE Raise(net.exc)

\* The requests the transport is handed by one call of requests.get/post/delete.
Transmit(request) == <<request>>

\* Error(**response.json()) in its try block (lines 130-139): a body that is
\* not JSON raises JSONDecodeError, which is caught; ** applied to a value
\* that is not a mapping raises TypeError, which is not.
ParseError(body) ==
    IF body.json = None THEN Raise("InvalidResponseError")
    ELSE LET v == body.json[1]
         IN  IF v.t # "obj" THEN Raise("TypeError")
             ELSE IF Validates("Error", v.f) THEN Return("Error", Parsed("Error", v.f))
             ELSE Raise("InvalidResponseError")

\* DrsObject(**response.json()) and AccessURL(**response.json()) in their try
\* blocks (lines 141-146, 210-215): only pydantic.ValidationError is caught.
ParseModel(model, body) ==
    IF body.json = None THEN Raise("JSONDecodeError")
    ELSE LET v == body.json[1]
         IN  IF v.t # "obj" THEN Raise("TypeError")
             ELSE IF Validates(model, v.f) THEN Return(model, Parsed(model, v.f))
             ELSE Raise("InvalidResponseError")

\* str(response.json()) in its try block (lines 281-286, 346-351).
ParseStr(body) ==
    IF body.json = None THEN Raise("InvalidResponseError")
    ELSE Return("str", PyStr(body.json[1]))

\* The status code on which the success branch is taken (lines 129, 198, 269, 334).
SuccessStatus == 200

\* What an operation does with the transport's answer, from the try block on;
\* success names what the success branch builds.
Outcome(net, success) ==
    IF net.exc # "" THEN TransportFailure(net)
    ELSE IF net.status # SuccessStatus THEN ParseError(net.body)
    ELSE IF success = "str" THEN ParseStr(net.body)
    ELSE ParseModel(success, net.body)

---------------------------------------------------------------------------
(* The four operations *)

ObjectsPath == <<"/", "o", "b", "j", "e", "c", "t", "s">>
AccessPath  == <<"/", "a", "c", "c", "e", "s", "s">>

\* `if token: self.token = token; self._get_headers()` (lines 113-115): the
\* stored token is replaced; the headers _get_headers returns are dropped, so
\* self.headers stays as the constructor set it.
TokenAfterAlways(stored, tok) == tok
TokenAfter(stored, tok) == IF Truthy(tok) THEN tok ELSE stored

Request(method, url, hdrs, body) ==
    [method |-> method, url |-> url, headers |-> hdrs, json |-> body]

\* A call: its arguments, the client as it was before the call, the requests
\* handed to the transport, and where the call is: "sent" while the transport
\* has the request, "done" once the call has returned or raised.
CallRecord(op, object_id, access_id, object_data, tok, phase, requests, result) ==
    [op |-> op, object_id |-> object_id, access_id |-> access_id,
     object_data |-> object_data, token |-> tok, phase |-> phase,
     net |-> NetRaises(""), requests |-> requests, result |-> result,
     before |-> [uri |-> uri, token |-> token, headers |-> headers]]

NoResult == [outcome |-> "none", type |-> "", value |-> None]

\* No call is in the transport: the client is used by one caller at a time.
Idle == ctor = "ok" /\ call.phase = "done"

\* DRSClient.get_object(object_id, token) up to requests.get (lines 110-120).
get_object(object_id, tok) ==
    /\ Idle
    /\ LET id      == _get_object_id(object_id)
           url     == uri \o ObjectsPath \o <<"/">> \o id.value
           request == Request("GET", url, headers, None)
       IN  IF id.raised # ""
           THEN /\ call' = CallRecord("get_object", Some(object_id), None, None, tok,
                                      "done", <<>>, Raise(id.raised))
                /\ UNCHANGED token
           ELSE /\ call' = CallRecord("get_object", Some(object_id), None, None, tok,
                                      "sent", Transmit(request), NoResult)
                /\ token' = TokenAfter(token, tok)
    /\ UNCHANGED <<ctor, ctorArgs, uri, headers, arg, ret, check>>

\* DRSClient.get_access_url(object_id, access_id, token) up to requests.get
\* (lines 178-189).
get_access_url(object_id, access_id, tok) ==
    /\ Idle
    /\ LET id      == _get_object_id(object_id)
           acc_id  == Quote(access_id)
           url     == uri \o ObjectsPath \o <<"/">> \o id.value \o AccessPath \o <<"/">> \o acc_id
           request == Request("GET", url, headers, None)
       IN  IF id.raised # ""
           THEN /\ call' = CallRecord("get_access_url", Some(object_id), Some(access_id), None,
                                      tok, "done", <<>>, Raise(id.raised))
                /\ UNCHANGED token
           ELSE /\ call' = CallRecord("get_access_url", Some(object_id), Some(access_id), None,
                                      tok, "sent", Transmit(request), NoResult)
                /\ token' = TokenAfter(token, tok)
    /\ UNCHANGED <<ctor, ctorArgs, uri, headers, arg, ret, check>>

\* post_object, lines 249-260: the payload is checked, and sent only when it
\* passes the check.
PostDispatchUnchecked(request, object_data) ==
    [phase |-> "sent", requests |-> Transmit(request), result |-> NoResult]
PostDispatch(request, object_data) ==
    IF ~Validates("PostDrsObject", object_data)
    THEN [phase |-> "done", requests |-> <<>>, result |-> Raise("InvalidObjectData")]
    ELSE [phase |-> "sent", requests |-> Transmit(request), result |-> NoResult]

\* DRSClient.post_object(object_data, token) up to requests.post (lines
\* 244-260). The token is stored before the payload is checked.
post_object(object_data, tok) ==
    /\ Idle
    /\ LET url     == uri \o ObjectsPath
           request == Request("POST", url, headers, Some(object_data))
           step    == PostDispatch(request, object_data)
       IN  /\ call' = CallRecord("post_object", None, None, Some(object_data), tok,
                                 step.phase, step.requests, step.result)
           /\ token' = TokenAfter(token, tok)
    /\ UNCHANGED <<ctor, ctorArgs, uri, headers, arg, ret, check>>

\* DRSClient.delete_object(object_id, token) up to requests.delete (lines
\* 315-325).
delete_object(object_id, tok) ==
    /\ Idle
    /\ LET id      == _get_object_id(object_id)
           url     == uri \o ObjectsPath \o <<"/">> \o id.value
           request == Request("DELETE", url, headers, None)
       IN  IF id.raised # ""
           THEN /\ call' = CallRecord("delete_object", Some(object_id), None, None, tok,
                                      "done", <<>>, Raise(id.raised))
                /\ UNCHANGED token
           ELSE /\ call' = CallRecord("delete_object", Some(object_id), None, None, tok,
                                      "sent", Transmit(request), NoResult)
                /\ token' = TokenAfter(token, tok)
    /\ UNCHANGED <<ctor, ctorArgs, uri, headers, arg, ret, check>>

\* What the success branch of each operation builds.
SuccessShape(op) ==
    CASE op = "get_object" -> "DrsObject"
      [] op = "get_access_url" -> "AccessURL"
      [] op \in {"post_object", "delete_object"} -> "str"

\* The transport raises or answers, and the operation that called it runs to
\* its end: the except clause and the status branches (lines 121-148, 190-217,
\* 261-288, 326-353).
TransportReturns(net) ==
    /\ ctor = "ok"
    /\ call.op # "none"
    /\ call.phase = "sent"
    /\ call' = [call EXCEPT !.phase = "done", !.net = net,
                            !.result = Outcome(net, SuccessShape(call.op))]
    /\ UNCHANGED <<ctor, ctorArgs, uri, token, headers, arg, ret, check>>

---------------------------------------------------------------------------
(* drs_cli/utils.py: the checks of URIs by regular expression *)

\* [A-Za-z0-9.], the host characters of the URI patterns; no re.I here.
IsUriHostChar(c) == c \in LowerSet \cup UpperSet \cup DigitSet \cup {"."}

\* The literal text at the start of HTTP_URI_PATTERN and HTTPS_URI_PATTERN;
\* each is followed by ([A-Za-z0-9.]+$).
HTTP_URI_PATTERN  == Http \o SchemeSep
HTTPS_URI_PATTERN == Https \o SchemeSep

\* re.fullmatch(pattern, uri) for these patterns: the literal text, then one
\* or more host characters up to the end of the string. The '$' of the
\* pattern stands before a final line feed too, but fullmatch wants the
\* whole string matched, so a final line feed makes it fail.
FullMatchUri(literal, u) ==
    /\ Len(u) > Len(literal)
    /\ SubSeq(u, 1, Len(literal)) = literal
    /\ \A i \in (Len(literal) + 1)..Len(u) : IsUriHostChar(u[i])

\* check_http_uri_regex(uri) and check_https_uri_regex(uri): both match
\* HTTP_URI_PATTERN (lines 19 and 28).
check_http_uri_regex(u)  == FullMatchUri(HTTP_URI_PATTERN, u)
check_https_uri_regex(u) == FullMatchUri(HTTP_URI_PATTERN, u)

NoCheck == [fn |-> "none", uri |-> <<>>, value |-> FALSE]

\* A call of one of the checks.
CheckHttpUri(u) ==
    /\ check = NoCheck
    /\ check' = [fn |-> "check_http_uri_regex", uri |-> u, value |-> check_http_uri_regex(u)]
    /\ UNCHANGED <<ctor, ctorArgs, uri, token, headers, call, arg, ret>>

CheckHttpsUri(u) ==
    /\ check = NoCheck
    /\ check' = [fn |-> "check_https_uri_regex", uri |-> u, value |-> check_https_uri_regex(u)]
    /\ UNCHANGED <<ctor, ctorArgs, uri, token, headers, call, arg, ret>>

\* The characters of the table of Ord.
OrdChars == {"\n", "\r", " ", "!", "#", "$", "%", "&", "'", "+", ",", "-", ".", "/",
             ":", ";", "=", "?", "@", "\\", "_", "~"}

\* c is in the range lo-hi of a character class, for a c that is neither a
\* letter nor a digit.
InCharRange(c, lo, hi) == c \in OrdChars /\ Ord(c) \in Ord(lo)..Ord(hi)

\* [A-Za-z0-9.-_~], the identifier class of DRS_URI_PATTERN: letters, digits,
\* the range from '.' to '_', and '~'.
IsDrsUriIdChar(c) ==
    c \in LowerSet \cup UpperSet \cup DigitSet \/ InCharRange(c, ".", "_") \/ c = "~"

\* [A-Za-z0-9._~-], the class of DRS_ID_PATTERN: the '-' at its end is literal.
IsDrsIdChar(c) ==
    c \in LowerSet \cup UpperSet \cup DigitSet \cup {".", "_", "~", "-"}

\* The literal text at the start of DRS_URI_PATTERN.
DRS_URI_PATTERN == Drs \o SchemeSep

\* check_drs_uri_regex(uri): re.fullmatch(DRS_URI_PATTERN, uri). The string
\* is the literal text, one or more host characters, '/', and one or more
\* characters of the identifier class up to the end; the matcher tries every
\* '/' as the one between the two groups.
check_drs_uri_regex(u) ==
    /\ Len(u) > Len(DRS_URI_PATTERN)
    /\ SubSeq(u, 1, Len(DRS_URI_PATTERN)) = DRS_URI_PATTERN
    /\ \E k \in (Len(DRS_URI_PATTERN) + 2)..(Len(u) - 1) :
           /\ u[k] = "/"
           /\ \A i \in (Len(DRS_URI_PATTERN) + 1)..(k - 1) : IsUriHostChar(u[i])
           /\ \A i \in (k + 1)..Len(u) : IsDrsUriIdChar(u[i])

\* check_drs_id_regex(id): re.fullmatch(DRS_ID_PATTERN, id).
check_drs_id_regex(id) ==
    /\ Len(id) > 0
    /\ \A i \in 1..Len(id) : IsDrsIdChar(id[i])

\* A call of check_drs_uri_regex, and one of check_drs_id_regex (the record
\* keeps the argument in its field uri).
CheckDrsUri(u) ==
    /\ check = NoCheck
    /\ check' = [fn |-> "check_drs_uri_regex", uri |-> u, value |-> check_drs_uri_regex(u)]
    /\ UNCHANGED <<ctor, ctorArgs, uri, token, headers, call, arg, ret>>

CheckDrsId(id) ==
    /\ check = NoCheck
    /\ check' = [fn |-> "check_drs_id_regex", uri |-> id, value |-> check_drs_id_regex(id)]
    /\ UNCHANGED <<ctor, ctorArgs, uri, token, headers, call, arg, ret>>

---------------------------------------------------------------------------
(* Inputs *)

\* Every text of at most n characters of alphabet.
Texts(alphabet, n) == UNION {[1..k -> alphabet] : k \in 0..n}

\* The URIs, identifiers, payloads and answers of tests/test_client.py and of
\* the scenarios of the specification.
MOCK_HOST            == <<"h", "t", "t", "p", "s", ":", "/", "/", "f", "a", "k", "e", "h", "o", "s", "t", ".", "c", "o", "m">>
MOCK_DRS_URI         == <<"d", "r", "s", ":", "/", "/", "f", "a", "k", "e", "h", "o", "s", "t", ".", "c", "o", "m", "/", "S", "O", "M", "E", "_", "O", "B", "J", "E", "C", "T">>
MOCK_DRS_URI_INVALID == <<"d", "r", ":", "/", "/", "f", "a", "k", "e", "h", "o", "s", "t", ".", "c", "o", "m", "/", "S", "O", "M", "E", "_", "O", "B", "J", "E", "C", "T">>
MOCK_BASE_PATH       == <<"a", "/", "b", "/", "c">>
MOCK_PORT            == 8080
MOCK_TOKEN           == "MyT0k3n"
OTHER_TOKEN          == "0th3rT0k3n"
MOCK_ID              == <<"O", "B", "J", "1">>
MOCK_ACCESS_ID       == <<"A", "C", "C", "1">>

MOCK_ERROR         == [msg |-> "mock_message", status_code |-> "400"]
MOCK_ERROR_INVALID == [msg |-> "mock_message"]
ACCESS_URL_GET_DATA == [url |-> "ftp://my.ftp.service/my_path/my_file_01.txt",
                        headers |-> "[None]"]
OBJECT_JSON_POST_DATA ==
    [created_time |-> "2019-05-20T00:12:34-07:00", updated_time |-> "2019-04-24T05:23:43-06:00",
     version |-> "1", size |-> "5", mime_type |-> "", checksums |-> "[md5]",
     access_methods |-> "[ftp]"]
Without(fields, k) == [j \in (DOMAIN fields) \ {k} |-> fields[j]]
OBJECT_JSON_POST_DATA_INVALID == Without(OBJECT_JSON_POST_DATA, "created_time")
OBJECT_JSON_GET_DATA ==
    [id |-> "OBJ1", self_uri |-> "drs://abc.com"] @@ OBJECT_JSON_POST_DATA
OBJECT_JSON_GET_DATA_INVALID ==
    [id |-> "OBJ1", self_uri |-> "drs://abc.com", access_methods |-> "[ftp]"]

CtorSamples ==
    {[uri |-> MOCK_HOST, port |-> Some(MOCK_PORT), base_path |-> DefaultBasePath,
      use_http |-> FALSE, token |-> None],
     [uri |-> MOCK_HOST, port |-> Some(MOCK_PORT), base_path |-> DefaultBasePath,
      use_http |-> FALSE, token |-> Some(MOCK_TOKEN)],
     [uri |-> MOCK_DRS_URI_INVALID, port |-> None, base_path |-> MOCK_BASE_PATH,
      use_http |-> FALSE, token |-> None]}

ObjectIdSamples ==
    {MOCK_DRS_URI,
     <<"a", "/", "b", "?", "c", "#", "d">>,
     <<"O", "B", "J", "1", "\n">>,
     <<"a", "\n", "b">>,
     <<"d", "r", "s", ":", "/", "/", "o", ".", "r", "g", "/", "X">>}
AccessIdSamples == {<<"A", "C", "C", "/", "1">>}
TokenSamples    == {None, Some(""), Some(OTHER_TOKEN)}
PayloadSamples  == {OBJECT_JSON_POST_DATA, OBJECT_JSON_POST_DATA_INVALID,
                    Without(OBJECT_JSON_POST_DATA, "version")}

BodySamples ==
    {Unparsable, Json(JStr("OBJ1")), Json(JList),
     Json(JObj(MOCK_ERROR)), Json(JObj(MOCK_ERROR_INVALID)),
     Json(JObj(ACCESS_URL_GET_DATA)),
     Json(JObj(OBJECT_JSON_GET_DATA)), Json(JObj(OBJECT_JSON_GET_DATA_INVALID))}
StatusSamples == {200, 201, 404}
NetSamples ==
    {NetRaises(e) : e \in CaughtTransportErrors}
    \cup {NetAnswers(st, b) : st \in StatusSamples, b \in BodySamples}

---------------------------------------------------------------------------
(* Spec: a client is constructed, then operations are called on it *)

Init ==
    /\ ctor = "none"
    /\ ctorArgs = NoArgs
    /\ uri = <<>>
    /\ token = None
    /\ headers = NoFields
    /\ call = NoCall
    /\ arg = None
    /\ ret = [raised |-> "", value |-> <<>>]
    /\ check = NoCheck

Construct ==
    \E a \in CtorSamples : DRSClient(a.uri, a.port, a.base_path, a.use_http, a.token)
GetObject ==
    \E id \in ObjectIdSamples, tok \in TokenSamples : get_object(id, tok)
GetAccessUrl ==
    \E id \in ObjectIdSamples, acc \in AccessIdSamples, tok \in TokenSamples :
        get_access_url(id, acc, tok)
PostObject ==
    \E data \in PayloadSamples, tok \in TokenSamples : post_object(data, tok)
DeleteObject ==
    \E id \in ObjectIdSamples, tok \in TokenSamples : delete_object(id, tok)
Answer ==
    \E net \in NetSamples : TransportReturns(net)

Next == Construct \/ GetObject \/ GetAccessUrl \/ PostObject \/ DeleteObject \/ Answer

Spec == Init /\ [][Next]_vars

---------------------------------------------------------------------------
(* SpecInit: the constructor alone, on every URI of a bounded family *)

\* The longest host text tried.
MaxHostLen == 4
HostAlphabet == {"a", "-", "."}
SchemeSamples == {Drs, Http, Https, <<"D", "R", "S">>, <<"H", "t", "t", "p">>, <<"d", "r">>}
TailSamples == {<<>>, <<"/", "i", "g", "n", "o", "r", "e", "d">>}

\* The character c, n times.
Rep(c, n) == [i \in 1..n |-> c]

\* Labels of the given lengths, each followed by a dot.
RECURSIVE DottedLabels(_)
DottedLabels(lens) ==
    IF lens = <<>> THEN <<>>
    ELSE Rep("a", Head(lens)) \o <<".">> \o DottedLabels(Tail(lens))

\* MOCK_DRS_URI_LONG of the tests: a well-formed host of 435 characters.
MOCK_DRS_URI_LONG ==
    Drs \o SchemeSep \o DottedLabels(<<28, 56, 56, 56, 56, 56, 55, 56, 4>>) \o <<"c", "o", "m">>
        \o <<"/", "S", "O", "M", "E", "_", "O", "B", "J", "E", "C", "T">>

\* The length of a last label that no domain label can have.
OverLongLabel == 300

\* URIs with a long host: the one of the tests, hosts of 253 and of 254
\* characters of four labels, and a host whose last label is over-long.
LongUriSamples ==
    {MOCK_DRS_URI_LONG,
     Https \o SchemeSep \o DottedLabels(<<63, 63, 63>>) \o Rep("a", 61),
     Https \o SchemeSep \o DottedLabels(<<63, 63, 63>>) \o Rep("a", 62),
     Https \o SchemeSep \o <<"a", ".">> \o Rep("b", OverLongLabel)}

UriInputs ==
    {sch \o SchemeSep \o h \o tail :
        sch \in SchemeSamples, h \in Texts(HostAlphabet, MaxHostLen), tail \in TailSamples}
    \cup {<<>>} \cup LongUriSamples

ConstructAny ==
    \E u \in UriInputs, port \in {None, Some(MOCK_PORT)},
       base_path \in {DefaultBasePath, MOCK_BASE_PATH}, use_http \in BOOLEAN :
        DRSClient(u, port, base_path, use_http, None)

NextInit == ConstructAny

SpecInit == Init /\ [][NextInit]_vars

---------------------------------------------------------------------------
(* SpecIds: _get_object_id alone, on every identifier of a bounded family *)

\* The longest identifier text tried after the drs://host/ part.
MaxIdLen == 3
IdAlphabet == {"x", "/", "\n", "?"}
IdPrefixSamples ==
    {<<>>, <<"d", "r", "s", ":", "/", "/", "a", ".", "b", "/">>, <<"D", "R", "S", ":", "/", "/", "a", ".", "b", "/">>,
     <<"d", "r", "s", ":", "/", "/", "c", ".", "d", "/">>, <<"d", "r", "s", ":", "/", "/", "a", "/">>}

IdInputs == {pre \o id : pre \in IdPrefixSamples, id \in Texts(IdAlphabet, MaxIdLen)}

ResolveAny == \E object_id \in IdInputs : GetObjectId(object_id)

NextIds == ResolveAny

SpecIds == Init /\ [][NextIds]_vars

---------------------------------------------------------------------------
(* SpecUtils: the checks of utils.py, on every string of a bounded family *)

\* The longest text tried after the scheme part.
MaxCheckLen == 3
CheckAlphabet == {"a", "Z", ".", "/", "\n"}
CheckPrefixSamples ==
    {<<>>, Http \o SchemeSep, Https \o SchemeSep, Drs \o SchemeSep,
     <<"H", "T", "T", "P", "S">> \o SchemeSep}

CheckInputs ==
    {pre \o t : pre \in CheckPrefixSamples, t \in Texts(CheckAlphabet, MaxCheckLen)}

CheckHttpAny  == \E u \in CheckInputs : CheckHttpUri(u)
CheckHttpsAny == \E u \in CheckInputs : CheckHttpsUri(u)

\* Hosts of [A-Za-z0-9.]+ and identifiers for the DRS checks.
DrsHostSamples == {<<"h">>, <<"H", ".", "9">>, <<".">>}
DrsIdAlphabet == {"a", "-", "/", "_", "~", "\n"}
DrsIdInputs == Texts(DrsIdAlphabet, MaxCheckLen)

CheckDrsUriAny ==
    \E u \in {Drs \o SchemeSep \o h \o <<"/">> \o id : h \in DrsHostSamples, id \in DrsIdInputs}
               \cup CheckInputs :
        CheckDrsUri(u)
CheckDrsIdAny == \E id \in DrsIdInputs : CheckDrsId(id)

NextUtils == CheckHttpAny \/ CheckHttpsAny \/ CheckDrsUriAny \/ CheckDrsIdAny

SpecUtils == Init /\ [][NextUtils]_vars

---------------------------------------------------------------------------
(* Reading a URI or a DRS URI, for the statements below *)

\* The first position >= from at which c stands in s, 0 if there is none.
IndexOf(s, c, from) ==
    LET hits == {i \in from..Len(s) : s[i] = c}
    IN  IF hits = {} THEN 0 ELSE CHOOSE i \in hits : \A j \in hits : i <= j

\* scheme://host:port/path read from left to right.
SchemeEnd(u) == IndexOf(u, ":", 1)
PortColon(u) == IndexOf(u, ":", SchemeEnd(u) + 1)
PathSlash(u) == IndexOf(u, "/", PortColon(u) + 1)
SchemeOf(u)  == SubSeq(u, 1, SchemeEnd(u) - 1)
HostOf(u)    == SubSeq(u, SchemeEnd(u) + Len(SchemeSep), PortColon(u) - 1)
PortOf(u)    == SubSeq(u, PortColon(u) + 1, PathSlash(u) - 1)
PathOf(u)    == Rest(u, PathSlash(u) + 1)

\* h is a domain: all of it matches _RE_DOMAIN.
IsDomain(h) == (Len(h) + 1) \in DomainEnds(h, 1, 0)

\* drs://<host>/<id> with a host that is a domain and an id that is not empty.
DrsHostOf(s) == SubSeq(s, Len(DrsPrefix) + 1, IndexOf(s, "/", Len(DrsPrefix) + 1) - 1)
DrsIdOf(s)   == Rest(s, IndexOf(s, "/", Len(DrsPrefix) + 1) + 1)
IsDrsUri(s) ==
    /\ Len(s) >= Len(DrsPrefix)
    /\ SubSeq(s, 1, Len(DrsPrefix)) = DrsPrefix
    /\ IndexOf(s, "/", Len(DrsPrefix) + 1) # 0
    /\ IsDomain(DrsHostOf(s))
    /\ DrsIdOf(s) # <<>>

\* The identifier an argument names: the id of a DRS URI, else the argument.
NamedId(s) == IF IsDrsUri(s) THEN DrsIdOf(s) ELSE s

\* A call that handed a request to the transport, and the part of its URL
\* that follows client.uri.
Sent == call.op # "none" /\ call.requests # <<>>
Done == call.op # "none" /\ call.phase = "done"
SentUrl  == call.requests[1].url
UrlTail  == Rest(SentUrl, Len(call.before.uri) + 1)

---------------------------------------------------------------------------
(* C1 *)

\* C1 (as stated): the request URL is client.uri + '/objects/' + enc(id) for
\* get_object and delete_object, with '/access/' + enc(accessId) added for
\* get_access_url, and client.uri + '/objects' for post_object, for every
\* identifier; the identifiers add no raw '/', '?' or '#', so the number of
\* path segments after client.uri is fixed per operation.
C1_RequestUrl ==
    Sent =>
        /\ SubSeq(SentUrl, 1, Len(call.before.uri)) = call.before.uri
        /\ UrlTail =
             CASE call.op \in {"get_object", "delete_object"} ->
                    ObjectsPath \o <<"/">> \o Quote(NamedId(call.object_id[1]))
               [] call.op = "get_access_url" ->
                    ObjectsPath \o <<"/">> \o Quote(NamedId(call.object_id[1]))
                        \o AccessPath \o <<"/">> \o Quote(call.access_id[1])
               [] call.op = "post_object" -> ObjectsPath
        /\ Count(UrlTail, "/") =
             CASE call.op \in {"get_object", "delete_object"} -> 2
               [] call.op = "get_access_url" -> 4
               [] call.op = "post_object" -> 1
        /\ Count(UrlTail, "?") = 0
        /\ Count(UrlTail, "#") = 0

\* The part of C1 that the code keeps: whatever the identifiers, the URL has
\* the fixed number of path segments after client.uri and no raw '?' or '#'.
UrlSegmentsFixed ==
    Sent =>
        /\ Count(UrlTail, "/") =
             CASE call.op \in {"get_object", "delete_object"} -> 2
               [] call.op = "get_access_url" -> 4
               [] call.op = "post_object" -> 1
        /\ Count(UrlTail, "?") = 0
        /\ Count(UrlTail, "#") = 0

---------------------------------------------------------------------------
(* C2 *)

\* C2 (as stated): for every drs://<host>/<id> with a host of the domain
\* grammar and a non-empty id, _get_object_id returns the percent-encoding of
\* <id> alone, and what it returns holds no raw '/'.
C2_DrsUriResolvesToId ==
    (arg # None /\ IsDrsUri(arg[1])) =>
        /\ ret.raised = ""
        /\ ret.value = Quote(DrsIdOf(arg[1]))
        /\ Count(ret.value, "/") = 0

---------------------------------------------------------------------------
(* C3 *)

\* The token C3 expects in the request: the token of the call if the call
\* gave one, else the token the client stored before the call.
ExpectedToken == IF Truthy(call.token) THEN call.token ELSE call.before.token

\* C3 (as stated): every request carries Content-type: application/json, and
\* carries Authorization: Bearer <t> exactly when a token is set, t being the
\* token of the call if it gave one and the stored token otherwise.
C3_RequestHeaders ==
    Sent =>
        LET hdrs == call.requests[1].headers
        IN  /\ "Content-type" \in DOMAIN hdrs
            /\ hdrs["Content-type"] = "application/json"
            /\ ("Authorization" \in DOMAIN hdrs) <=> Truthy(ExpectedToken)
            /\ Truthy(ExpectedToken) => hdrs["Authorization"] = "Bearer " \o ExpectedToken[1]

---------------------------------------------------------------------------
(* C4 *)

\* A payload that does not match the object-creation shape: a field is missing.
ShapeMismatch(object_data) == \E k \in PostDrsObjectFields : k \notin DOMAIN object_data

\* C4: a post_object call whose payload does not match the object-creation
\* shape fails with InvalidObjectData and hands no request to the transport.
C4_InvalidPayloadNeverSent ==
    (call.op = "post_object" /\ ShapeMismatch(call.object_data[1])) =>
        /\ call.phase = "done"
        /\ call.result = Raise("InvalidObjectData")
        /\ call.requests = <<>>

\* C4 witness: a post_object call with a payload that lacks `version` has
\* failed with InvalidObjectData, nothing sent.
C4_Witness ==
    /\ call.op = "post_object"
    /\ "version" \notin DOMAIN call.object_data[1]
    /\ call.phase = "done"
    /\ call.result.type = "InvalidObjectData"
    /\ Len(call.requests) = 0

---------------------------------------------------------------------------
(* C5 *)

\* The transport answered the call with a status code and a body.
Answered == Done /\ call.requests # <<>> /\ call.net.exc = ""

\* The body is a well-formed Error record: a JSON object with msg and status_code.
IsErrorBody(body) ==
    /\ body.json # None
    /\ body.json[1].t = "obj"
    /\ ErrorFields \subseteq DOMAIN body.json[1].f

\* C5 (as stated): on a status that is not a success status the call returns
\* an Error record with the body's msg and status_code when the body is a
\* well-formed Error record, and raises InvalidResponseError for every other
\* body: text that is not JSON, JSON that is not an object, an object of
\* another shape.
C5_ErrorStatus ==
    (Answered /\ call.net.status \notin 200..299) =>
        IF IsErrorBody(call.net.body)
        THEN /\ call.result.outcome = "return"
             /\ call.result.type = "Error"
             /\ call.result.value[1].msg = call.net.body.json[1].f.msg
             /\ call.result.value[1].status_code = call.net.body.json[1].f.status_code
        ELSE call.result = Raise("InvalidResponseError")

---------------------------------------------------------------------------
(* C6 *)

\* The body is a JSON object with every field of the shape.
HasShape(body, fields) ==
    /\ body.json # None
    /\ body.json[1].t = "obj"
    /\ fields \subseteq DOMAIN body.json[1].f

\* C6 (as stated): on status 200, get_object and get_access_url return the
\* record of the body when the body has the expected shape, and raise
\* InvalidResponseError for every other body, also one that is not JSON.
C6_SuccessBodyValidated ==
    (Answered /\ call.op \in {"get_object", "get_access_url"} /\ call.net.status = 200) =>
        LET fields == IF call.op = "get_object" THEN DrsObjectFields ELSE AccessURLFields
        IN  IF HasShape(call.net.body, fields)
            THEN /\ call.result.outcome = "return"
                 /\ call.result.type = SuccessShape(call.op)
                 /\ call.result.value[1] = call.net.body.json[1].f
            ELSE call.result = Raise("InvalidResponseError")

---------------------------------------------------------------------------
(* C7 *)

\* C7: when the transport fails (connection error, name resolution error,
\* new-connection error), the call raises ConnectionError, having handed the
\* transport exactly one request; it returns no value.
C7_TransportFailureRaisedOnce ==
    (Done /\ call.requests # <<>> /\ call.net.exc \in CaughtTransportErrors) =>
        /\ call.result = Raise("ConnectionError")
        /\ Len(call.requests) = 1

\* C7 witness: post_object met a name resolution error and raised ConnectionError.
C7_Witness ==
    /\ Done
    /\ call.op = "post_object"
    /\ Len(call.requests) = 1
    /\ call.net.exc = "gaierror"
    /\ call.result.type = "ConnectionError"

---------------------------------------------------------------------------
(* C8 *)

---------------------------------------------------------------------------
(* C9 *)

---------------------------------------------------------------------------
(* C10 *)

\* C10 (as stated): the uri of every constructed client is
\* scheme://host:port/basePath with scheme exactly http or https, host the
\* host of the input URI and basePath the given base path.
C10_UriWellFormed ==
    ctor = "ok" =>
        /\ SchemeOf(uri) \in {Http, Https}
        /\ HostOf(uri) = _get_host(ctorArgs.uri).host
        /\ PathOf(uri) = ctorArgs.base_path
        /\ uri = SchemeOf(uri) \o SchemeSep \o HostOf(uri) \o <<":">> \o PortOf(uri)
                    \o <<"/">> \o PathOf(uri)

---------------------------------------------------------------------------
(* C11 *)

\* The URI matches the host pattern: drs, http or https in any letter case,
\* '://', and then a domain.
MatchesHostPattern(u) ==
    \E w \in {Drs, Http, Https} :
        /\ StartsWithCI(u, w \o SchemeSep)
        /\ DomainEnds(u, Len(w) + Len(SchemeSep) + 1, 0) # {}

\* C11: constructing a client from a URI that does not match the host
\* pattern fails with InvalidURI; no attribute of a client is set and no
\* request is made.
C11_NoMatchInvalidURI ==
    (ctor # "none" /\ ~MatchesHostPattern(ctorArgs.uri)) =>
        /\ ctor = "InvalidURI"
        /\ uri = <<>>
        /\ token = None
        /\ headers = NoFields
        /\ call = NoCall

\* C11 witness: an http URI with a malformed domain (no dot) was refused.
C11_Witness ==
    /\ ctor = "InvalidURI"
    /\ ctorArgs.uri = Http \o SchemeSep \o <<"a", "a">>
    /\ uri = <<>>

\* C11 witness for the empty input.
C11_WitnessEmpty ==
    /\ ctor = "InvalidURI"
    /\ ctorArgs.uri = <<>>

---------------------------------------------------------------------------
(* C12 *)

\* The host part of an input URI: what stands between '://' and the next '/'.
InputHost(u) ==
    LET start == SchemeEnd(u) + Len(SchemeSep)
        slash == IndexOf(u, "/", start)
    IN  SubSeq(u, start, IF slash = 0 THEN Len(u) ELSE slash - 1)

\* C12 (as stated): for every input URI whose host part is longer than 253
\* characters the constructor fails with InvalidURI, so no client holds a
\* shortened form of such a host.
C12_LongHostInvalidURI ==
    (ctor # "none" /\ Len(InputHost(ctorArgs.uri)) > MaxHostLength) =>
        ctor = "InvalidURI"

---------------------------------------------------------------------------
(* C13 *)

\* The input parses as a hostname-based DRS URI: drs:// in any letter case, a
\* domain, '/', and an identifier that is not empty.
ParsesAsDrsUri(s) ==
    /\ StartsWithCI(s, DrsPrefix)
    /\ IndexOf(s, "/", Len(DrsPrefix) + 1) # 0
    /\ IsDomain(DrsHostOf(s))
    /\ DrsIdOf(s) # <<>>

\* C13 (as stated): _get_object_id raises for no input, and every input that
\* does not parse as a hostname-based DRS URI is returned whole,
\* percent-encoded.
C13_ResolverNeverRaises ==
    arg # None =>
        /\ ret.raised = ""
        /\ ~ParsesAsDrsUri(arg[1]) => ret.value = Quote(arg[1])

---------------------------------------------------------------------------
(* C14 *)

\* C14 (as stated): on the success status, post_object and delete_object
\* return the identifier when the body is a JSON string, and raise
\* InvalidResponseError for every other body: text that is not JSON, or JSON
\* of another type.
C14_IdentifierBody ==
    (Answered /\ call.op \in {"post_object", "delete_object"} /\ call.net.status = SuccessStatus) =>
        IF call.net.body.json # None /\ call.net.body.json[1].t = "str"
        THEN call.result = Return("str", call.net.body.json[1].s)
        ELSE call.result = Raise("InvalidResponseError")

---------------------------------------------------------------------------
(* C15 *)

SuccessTypes == {"DrsObject", "AccessURL", "str"}

\* The body has the success shape of the operation: a JSON string for
\* post_object and delete_object, else an object with the fields of the shape.
HasSuccessShape(op, body) ==
    CASE op = "get_object" -> HasShape(body, DrsObjectFields)
      [] op = "get_access_url" -> HasShape(body, AccessURLFields)
      [] op \in {"post_object", "delete_object"} ->
            body.json # None /\ body.json[1].t = "str"

\* C15 (as stated): the success branch is taken for every status in 200..299
\* and the Error branch for every other status: a 2xx body of the success
\* shape is returned as the success value, no 2xx body is returned as an Error
\* record, and no body of another status is returned as a success value.
C15_SuccessRange ==
    Answered =>
        IF call.net.status \in 200..299
        THEN /\ call.result.type # "Error"
             /\ HasSuccessShape(call.op, call.net.body) =>
                    (call.result.outcome = "return" /\ call.result.type = SuccessShape(call.op))
        ELSE call.result.type \notin SuccessTypes

---------------------------------------------------------------------------
(* C16 *)

RaisedTypes  == {"InvalidObjectData", "InvalidResponseError", "ConnectionError"}

\* C16 (as stated): a call is Sent with no outcome yet, or it has ended in
\* exactly one of a success value, an Error record returned as a value, or a
\* raised InvalidObjectData, InvalidResponseError or ConnectionError; no other
\* exception type escapes, and the transport is handed at most one request.
C16_CallOutcomes ==
    call.op # "none" =>
        /\ Len(call.requests) <= 1
        /\ call.phase \in {"sent", "done"}
        /\ call.phase = "sent" => (call.result = NoResult /\ Len(call.requests) = 1)
        /\ call.phase = "done" =>
             \/ call.result.outcome = "return" /\ call.result.type \in SuccessTypes \cup {"Error"}
             \/ call.result.outcome = "raise" /\ call.result.type \in RaisedTypes

---------------------------------------------------------------------------
(* C17 *)

\* C17: in every step on a constructed client, whatever the operation and
\* its outcome, client.uri stays as it is, and the stored token changes only
\* in a call that supplies a non-empty token, to exactly that token.
C17_UriAndTokenKept ==
    [][ctor = "ok" =>
         /\ uri' = uri
         /\ token' # token =>
              (call' # call /\ call'.op # "none" /\ Truthy(call'.token) /\ token' = call'.token)]_vars

\* C17 witness: a call given a drs:// URI that names another host and a
\* token of its own has ended; the token is the one of the call, the uri is
\* the one set at construction.
C17_Witness ==
    /\ Done
    /\ call.object_id = Some(<<"d", "r", "s", ":", "/", "/", "o", ".", "r", "g", "/", "X">>)
    /\ call.token = Some(OTHER_TOKEN)
    /\ call.before.token = Some(MOCK_TOKEN)
    /\ token = Some(OTHER_TOKEN)
    /\ uri = MOCK_HOST \o <<":">> \o IntToStr(MOCK_PORT) \o <<"/">> \o DefaultBasePath
    /\ HostOf(uri) # DrsHostOf(call.object_id[1])

---------------------------------------------------------------------------
(* C18 *)

\* C18 (as stated): once a call has replaced the stored token by T, a later
\* call that supplies no token sends Authorization: Bearer T. The stored
\* token differs from the constructor's only after such a replacement.
C18_OverrideSeenByNextCall ==
    (Sent /\ ~Truthy(call.token) /\ Truthy(call.before.token)
          /\ call.before.token # ctorArgs.token) =>
        LET hdrs == call.requests[1].headers
        IN  /\ "Authorization" \in DOMAIN hdrs
            /\ hdrs["Authorization"] = "Bearer " \o call.before.token[1]

---------------------------------------------------------------------------
(* C20 *)

\* C20 (as stated): a post_object call that failed with InvalidObjectData has
\* left uri, stored token and headers as they were before the call, also when
\* the call supplied a token.
C20_FailedPostChangesNothing ==
    (Done /\ call.op = "post_object" /\ call.result = Raise("InvalidObjectData")) =>
        /\ uri = call.before.uri
        /\ token = call.before.token
        /\ headers = call.before.headers

---------------------------------------------------------------------------
(* C19 *)

\* scheme://host with a host of one or more characters of [A-Za-z0-9.].
IsSchemeAndHost(scheme, u) ==
    LET start == Len(scheme) + Len(SchemeSep) + 1
    IN  /\ Len(u) >= start
        /\ SubSeq(u, 1, start - 1) = scheme \o SchemeSep
        /\ \A i \in start..Len(u) :
               u[i] \in LowerSet \cup UpperSet \cup DigitSet \cup {"."}

\* C19 (as stated): check_https_uri_regex is true exactly for 'https://' and
\* such a host, check_http_uri_regex exactly for 'http://' and such a host,
\* and no string is accepted by both checks.
C19_HttpsCheck ==
    /\ check.fn = "check_https_uri_regex" => (check.value <=> IsSchemeAndHost(Https, check.uri))
    /\ check.fn = "check_http_uri_regex" => (check.value <=> IsSchemeAndHost(Http, check.uri))
    /\ check.fn # "none" =>
           ~(check_http_uri_regex(check.uri) /\ check_https_uri_regex(check.uri))

---------------------------------------------------------------------------
(* C21 *)

\* The argument of the check is 'drs://' + host + '/' + id with a host of one
\* or more characters of [A-Za-z0-9.]; the id is what follows the first '/'
\* after the host.
IsDrsHostAndId(u) ==
    /\ Len(u) > Len(DrsPrefix)
    /\ SubSeq(u, 1, Len(DrsPrefix)) = DrsPrefix
    /\ IndexOf(u, "/", Len(DrsPrefix) + 1) > Len(DrsPrefix) + 1
    /\ \A i \in 1..Len(DrsHostOf(u)) :
           DrsHostOf(u)[i] \in LowerSet \cup UpperSet \cup DigitSet \cup {"."}

\* C21 (as stated): for every such host and every id, check_drs_uri_regex of
\* 'drs://' + host + '/' + id is true exactly when check_drs_id_regex(id) is:
\* when id is one or more of letters, digits, '.', '_', '~', '-'.
C21_SameIdAlphabet ==
    (check.fn = "check_drs_uri_regex" /\ IsDrsHostAndId(check.uri)) =>
        LET id == DrsIdOf(check.uri)
        IN  /\ check.value <=> check_drs_id_regex(id)
            /\ check.value <=>
                 (id # <<>> /\ \A i \in 1..Len(id) :
                     id[i] \in LowerSet \cup UpperSet \cup DigitSet \cup {".", "_", "~", "-"})

====
